---- MODULE Spec2Model ----
(***************************************************************************)
(* Model of the sitemap builder in students/jbimbert/main/main.go: the     *)
(* link filter and normalizer of parsePage, purgeTwins, the recursive      *)
(* traversal findAll with its global registry mLinks, and main.            *)
(*                                                                         *)
(* Hrefs are strings; Go's byte-wise string order is modelled by Less.     *)
(* A Link is a record [Href, Text].                                        *)
(***************************************************************************)
EXTENDS Integers, Sequences, FiniteSets, TLC

VARIABLES
    \* the run of main
    pc,               \* where main is: "start", "findAll", "returned", "done", "panic"
    domain,           \* flag -domain
    maxDepth,         \* global maxDepth, set from flag -depth
    mLinks,           \* global registry: function from href to Link
    stack,            \* the active findAll calls, outermost first
    err,              \* what the outermost findAll returned to main
    out,              \* what the output writer emitted
    web,              \* the server's responses for the urls the run has met
    fetched,          \* the urls handed to parsePage, in order
    failed,           \* some parsePage call has returned an error
    \* a single application of the filter, the normalizer or purgeTwins
    step,             \* how far the application has come
    argLinks,         \* the input slice
    argDomain,        \* the domain argument
    resFiltered,      \* result of filterLinks
    resNormalized,    \* result of mapLinks
    resUniq,          \* result of purgeTwins
    resTwice          \* result of purgeTwins applied to resUniq

crawlVars == <<pc, domain, maxDepth, mLinks, stack, err, out, web,
               fetched, failed>>
pureVars == <<step, argLinks, argDomain, resFiltered, resNormalized, resUniq,
              resTwice>>
vars == <<crawlVars, pureVars>>

(***************************************************************************)
(* Bounds of the model.                                                    *)
(***************************************************************************)
\* longest input sequence handed to purgeTwins in PurgeSpec
MaxLen == 3
\* most anchors on one page in Spec
MaxLinks == 2
\* largest finite -depth value tried in Spec
MaxDepthBound == 2

(***************************************************************************)
(* Strings.                                                                *)
(***************************************************************************)
\* the characters that occur in the model's hrefs, in byte order
Alphabet == "\t ./:@abcehilmoprstxy"

Code(c) == CHOOSE i \in 1..Len(Alphabet) : SubSeq(Alphabet, i, i) = c

CharAt(s, i) == SubSeq(s, i, i)

\* s < t for Go strings (byte-wise lexicographic order)
RECURSIVE Less(_, _)
Less(s, t) ==
    IF t = "" THEN FALSE
    ELSE IF s = "" THEN TRUE
    ELSE IF CharAt(s, 1) = CharAt(t, 1) THEN Less(Tail(s), Tail(t))
    ELSE Code(CharAt(s, 1)) < Code(CharAt(t, 1))

HasPrefix(s, p) == Len(s) >= Len(p) /\ SubSeq(s, 1, Len(p)) = p

IsSpace(c) == c \in {" ", "\t"}

RECURSIVE TrimLeft(_)
TrimLeft(s) ==
    IF s # "" /\ IsSpace(CharAt(s, 1)) THEN TrimLeft(Tail(s)) ELSE s

RECURSIVE TrimRight(_)
TrimRight(s) ==
    IF s # "" /\ IsSpace(CharAt(s, Len(s)))
    THEN TrimRight(SubSeq(s, 1, Len(s) - 1)) ELSE s

TrimSpace(s) == TrimRight(TrimLeft(s))

(***************************************************************************)
(* Filter and normalizer.                                                  *)
(***************************************************************************)
schemes == <<"https://", "http://">>

hasScheme(s, withOption) ==
    \E i \in 1..Len(schemes) : HasPrefix(s, schemes[i] \o withOption)

hasDomain(s, dom) ==
    Len(s) > 1 /\ (CharAt(s, 1) = "/" \/ hasScheme(s, dom \o "/"))

\* the predicate parsePage hands to filterLinks
keepLink(l, dom) ==
    LET ref == TrimSpace(l.Href) IN ref # "" /\ hasDomain(ref, dom)

filterLinks(links, dom) == SelectSeq(links, LAMBDA l : keepLink(l, dom))

\* normalizeLink taking the second scheme of the table instead of the first
normalizeLinkHttp(l, dom) ==
    IF CharAt(l.Href, 1) = "/"
    THEN [Href |-> schemes[2] \o dom \o l.Href, Text |-> l.Text]
    ELSE l

\* the function parsePage hands to mapLinks
normalizeLink(l, dom) ==
    IF CharAt(l.Href, 1) = "/"
    THEN [Href |-> schemes[1] \o dom \o l.Href, Text |-> l.Text]
    ELSE l

mapLinks(links, dom) == [i \in 1..Len(links) |-> normalizeLink(links[i], dom)]

(***************************************************************************)
(* purgeTwins.                                                             *)
(***************************************************************************)
Hrefs(links) == {links[i].Href : i \in 1..Len(links)}

Perms(n) == {p \in [1..n -> 1..n] : \A i, j \in 1..n : i # j => p[i] # p[j]}

\* SortSlice leaving the slice as it is
SortSliceNone(links) == {links}

\* sort.Slice by Href: any arrangement of the input in which no entry comes
\* before one with a smaller Href (the sort is not stable)
SortSlice(links) ==
    {[i \in 1..Len(links) |-> links[p[i]]] : p \in
        {q \in Perms(Len(links)) :
            \A i, j \in 1..Len(links) :
                i < j => ~Less(links[q[j]].Href, links[q[i]].Href)}}

\* sort.Search(n, f) with f given as a function on 0..n-1: binary search
RECURSIVE SearchFrom(_, _, _)
SearchFrom(i, j, f) ==
    IF i < j
    THEN LET h == (i + j) \div 2
         IN  IF ~f[h] THEN SearchFrom(h + 1, j, f) ELSE SearchFrom(i, h, f)
    ELSE i

Search(n, f) == SearchFrom(0, n, f)

\* one iteration of the loop of purgeTwins
uniqStep(uniqLinks, l) ==
    LET i == Search(Len(uniqLinks),
                    [k \in 0..Len(uniqLinks) - 1 |-> l.Href = uniqLinks[k + 1].Href])
    IN  IF i >= Len(uniqLinks) THEN Append(uniqLinks, l) ELSE uniqLinks

\* uniqScan stopping one entry early
RECURSIVE uniqScanShort(_, _)
uniqScanShort(links, uniqLinks) ==
    IF Len(links) <= 1 THEN uniqLinks
    ELSE uniqScanShort(Tail(links), uniqStep(uniqLinks, Head(links)))

\* the loop of purgeTwins over the sorted slice
RECURSIVE uniqScan(_, _)
uniqScan(links, uniqLinks) ==
    IF links = <<>> THEN uniqLinks
    ELSE uniqScan(Tail(links), uniqStep(uniqLinks, Head(links)))

\* the results purgeTwins can return for an input
purgeTwins(links) == {uniqScan(s, <<>>) : s \in SortSlice(links)}

(***************************************************************************)
(* The filter and the normalizer applied to one extracted link.            *)
(***************************************************************************)
Pads == {"", " "}
Cores == {"", "/", "/a", "//", "a", "http://example.com/a",
          "https://example.com/a", "https://example.com",
          "http://other.com/a", "mailto:x@y.com"}
FilterHrefs == {p \o c \o q : p \in Pads, c \in Cores, q \in Pads} \cup {"   "}
FilterTexts == {"", "x"}
FilterDomains == {"example.com", "other.com"}

CrawlIdle ==
    /\ pc = "idle" /\ domain = "" /\ maxDepth = -1
    /\ mLinks = <<>> /\ stack = <<>> /\ err = "nil" /\ out = <<>>
    /\ web = <<>> /\ fetched = <<>> /\ failed = FALSE

FilterInit ==
    /\ CrawlIdle
    /\ step = "extracted"
    /\ \E h \in FilterHrefs, t \in FilterTexts :
           argLinks = <<[Href |-> h, Text |-> t]>>
    /\ argDomain \in FilterDomains
    /\ resFiltered = <<>> /\ resNormalized = <<>>
    /\ resUniq = <<>> /\ resTwice = <<>>

Filter ==
    /\ step = "extracted"
    /\ resFiltered' = filterLinks(argLinks, argDomain)
    /\ step' = "filtered"
    /\ UNCHANGED <<crawlVars, argLinks, argDomain, resNormalized, resUniq, resTwice>>

Normalize ==
    /\ step = "filtered"
    /\ resNormalized' = mapLinks(resFiltered, argDomain)
    /\ step' = "normalized"
    /\ UNCHANGED <<crawlVars, argLinks, argDomain, resFiltered, resUniq, resTwice>>

FilterNext == Filter \/ Normalize

FilterSpec == FilterInit /\ [][FilterNext]_vars

(***************************************************************************)
(* purgeTwins applied to a slice of links, and again to its result.        *)
(***************************************************************************)
PurgeHrefs == {"https://e.com/a", "https://e.com/b", "https://e.com/ab"}
PurgeTexts == {"x", "y"}
PurgeLinks == {[Href |-> h, Text |-> t] : h \in PurgeHrefs, t \in PurgeTexts}

SeqsUpTo(S, n) == UNION {[1..k -> S] : k \in 0..n}

PurgeInit ==
    /\ CrawlIdle
    /\ step = "input"
    /\ argLinks \in SeqsUpTo(PurgeLinks, MaxLen)
    /\ argDomain = ""
    /\ resFiltered = <<>> /\ resNormalized = <<>>
    /\ resUniq = <<>> /\ resTwice = <<>>

Purge ==
    /\ step = "input"
    /\ resUniq' \in purgeTwins(argLinks)
    /\ step' = "purged"
    /\ UNCHANGED <<crawlVars, argLinks, argDomain, resFiltered, resNormalized, resTwice>>

PurgeAgain ==
    /\ step = "purged"
    /\ resTwice' \in purgeTwins(resUniq)
    /\ step' = "purgedTwice"
    /\ UNCHANGED <<crawlVars, argLinks, argDomain, resFiltered, resNormalized, resUniq>>

PurgeNext == Purge \/ PurgeAgain

PurgeSpec == PurgeInit /\ [][PurgeNext]_vars

(***************************************************************************)
(* The run of main: flags, findAll over the registry, output.              *)
(***************************************************************************)
PureIdle ==
    /\ step = "idle" /\ argLinks = <<>> /\ argDomain = ""
    /\ resFiltered = <<>> /\ resNormalized = <<>>
    /\ resUniq = <<>> /\ resTwice = <<>>

Domains == {"e.com", "http://e.com"}
\* flag -outfile, read by main once findAll has returned
Outfiles == {"", " ", "s.xml"}
Depths == {-1} \cup 0..MaxDepthBound

\* the anchors of the site, in the order in which a page shows them
Anchors == <<" /a", "https://e.com/c", "/b", "/a">>

\* the link slices Parse may fill in: a page shows at most MaxLinks of the
\* anchors; the text of an anchor is its position on the page
PageLinks ==
    {[i \in 1..Len(ks) |-> [Href |-> Anchors[ks[i]], Text |-> ToString(i)]] :
        ks \in {js \in SeqsUpTo(1..Len(Anchors), MaxLinks) :
                  \A i \in 1..Len(js) - 1 : js[i] < js[i + 1]}}

\* what loading and parsing a url can give: the extracted links, or an error
\* of http.Get / ReadAll, or an error of html.Parse
Failure(kind) == [kind |-> kind, links |-> <<>>]

\* http.Get can reach a url that is a scheme followed by a host
Fetchable(url) ==
    \E i \in 1..Len(schemes) :
        /\ HasPrefix(url, schemes[i])
        /\ ~hasScheme(SubSeq(url, Len(schemes[i]) + 1, Len(url)), "")

Responses(url) ==
    IF url \in DOMAIN web THEN {web[url]}
    ELSE IF ~Fetchable(url) THEN {Failure("FetchError")}
    ELSE {Failure("FetchError"), Failure("ParseError")}
            \cup {[kind |-> "ok", links |-> ls] : ls \in PageLinks}

\* the slices parsePage can return for the links extracted from a page
parsePage(extracted, dom) ==
    purgeTwins(mapLinks(filterLinks(extracted, dom), dom))

\* main: the root link
fulldomain(d) == IF ~hasScheme(d, "") THEN schemes[1] \o d ELSE d

RootLink == [Href |-> fulldomain(domain), Text |-> "Root link"]

Init ==
    /\ PureIdle
    /\ pc = "start"
    /\ domain \in Domains
    /\ maxDepth \in Depths
    /\ mLinks = <<>>
    /\ stack = <<>>
    /\ err = "nil"
    /\ out = <<>>
    /\ web = <<>>
    /\ fetched = <<>>
    /\ failed = FALSE

\* main calls findAll(links, *domain, 0)
MainStart ==
    /\ pc = "start"
    /\ pc' = "findAll"
    /\ stack' = <<[links |-> <<RootLink>>, i |-> 1, depth |-> 0]>>
    /\ UNCHANGED <<domain, maxDepth, mLinks, err, out, web, fetched,
                   failed, pureVars>>

\* the innermost active call and the link its loop is at
top == stack[Len(stack)]
link == top.links[top.i]

\* found never seeing a link in the registry
foundNever(href) == FALSE

\* the found test of findAll
found(href) == href \in DOMAIN mLinks

\* follow with the bound off by one
followInclusive(depth) == maxDepth = -1 \/ depth <= maxDepth

\* follow without the unlimited case
followBounded(depth) == depth < maxDepth

\* the depth test of findAll
follow(depth) == maxDepth = -1 \/ depth < maxDepth

\* the range loop of findAll moves to the next link
advance(frame) == [frame EXCEPT !.i = @ + 1]

\* mLinks[link.Href] = link
Insert(l) ==
    mLinks' = [h \in DOMAIN mLinks \cup {l.Href} |->
                  IF h = l.Href THEN l ELSE mLinks[h]]

\* the server's response for url is the same whenever it is asked for
Serve(url, resp) ==
    /\ resp \in Responses(url)
    /\ web' = [u \in DOMAIN web \cup {url} |-> IF u = url THEN resp ELSE web[u]]

\* the innermost call returns result: to main if it is the outermost call,
\* else to the calling findAll, which drops the result and goes on
Return(result) ==
    IF Len(stack) = 1
    THEN /\ stack' = <<>>
         /\ pc' = "returned"
         /\ err' = result
    ELSE /\ stack' = [SubSeq(stack, 1, Len(stack) - 1)
                         EXCEPT ![Len(stack) - 1] = advance(@)]
         /\ UNCHANGED <<pc, err>>

\* the link is in the registry: continue
FindAllSkip ==
    /\ pc = "findAll"
    /\ top.i <= Len(top.links)
    /\ found(link.Href)
    /\ stack' = [stack EXCEPT ![Len(stack)] = advance(@)]
    /\ UNCHANGED <<pc, domain, maxDepth, mLinks, err, out, web,
                   fetched, failed, pureVars>>

\* the link is new and the depth test fails: it is added and not followed
\* (what the server would answer for it is settled all the same)
FindAllAdd ==
    /\ pc = "findAll"
    /\ top.i <= Len(top.links)
    /\ ~found(link.Href)
    /\ ~follow(top.depth)
    /\ Insert(link)
    /\ \E resp \in Responses(link.Href) : Serve(link.Href, resp)
    /\ stack' = [stack EXCEPT ![Len(stack)] = advance(@)]
    /\ UNCHANGED <<pc, domain, maxDepth, err, out, fetched, failed, pureVars>>

\* the link is new and followed: parsePage succeeds and findAll is called
\* on its links
FindAllFollow ==
    /\ pc = "findAll"
    /\ top.i <= Len(top.links)
    /\ ~found(link.Href)
    /\ follow(top.depth)
    /\ Insert(link)
    /\ fetched' = Append(fetched, link.Href)
    /\ \E resp \in Responses(link.Href) :
          /\ resp.kind = "ok"
          /\ Serve(link.Href, resp)
          /\ \E newLinks \in parsePage(resp.links, domain) :
                stack' = Append(stack, [links |-> newLinks, i |-> 1,
                                        depth |-> top.depth + 1])
    /\ UNCHANGED <<pc, domain, maxDepth, err, out, failed, pureVars>>

\* the link is new and followed: parsePage fails and findAll returns err
FindAllFail ==
    /\ pc = "findAll"
    /\ top.i <= Len(top.links)
    /\ ~found(link.Href)
    /\ follow(top.depth)
    /\ Insert(link)
    /\ fetched' = Append(fetched, link.Href)
    /\ failed' = TRUE
    /\ \E resp \in Responses(link.Href) :
          /\ resp.kind # "ok"
          /\ Serve(link.Href, resp)
          /\ Return(resp.kind)
    /\ UNCHANGED <<domain, maxDepth, out, pureVars>>

\* the loop is over: findAll returns nil
FindAllReturn ==
    /\ pc = "findAll"
    /\ top.i > Len(top.links)
    /\ Return("nil")
    /\ UNCHANGED <<domain, maxDepth, mLinks, out, web, fetched,
                   failed, pureVars>>

\* main: panic(err)
MainPanic ==
    /\ pc = "returned"
    /\ err # "nil"
    /\ pc' = "panic"
    /\ UNCHANGED <<domain, maxDepth, mLinks, stack, err, out, web,
                   fetched, failed, pureVars>>

\* Sorted the wrong way round
RECURSIVE SortedDescending(_)
SortedDescending(S) ==
    IF S = {} THEN <<>>
    ELSE LET m == CHOOSE x \in S : \A y \in S \ {x} : Less(y, x)
         IN  <<m>> \o SortedDescending(S \ {m})

\* the hrefs of a set in ascending order
RECURSIVE Sorted(_)
Sorted(S) ==
    IF S = {} THEN <<>>
    ELSE LET m == CHOOSE x \in S : \A y \in S \ {x} : Less(x, y)
         IN  <<m>> \o Sorted(S \ {m})

RegistryHrefs == {mLinks[h].Href : h \in DOMAIN mLinks}

\* main: writeBuf()
MainWriteBuf ==
    /\ pc = "returned"
    /\ err = "nil"
    /\ \E outfile \in Outfiles :
          /\ TrimSpace(outfile) = ""
          /\ out' = [to |-> "stdout", count |-> Cardinality(DOMAIN mLinks),
                      urls |-> Sorted(RegistryHrefs)]
    /\ pc' = "done"
    /\ UNCHANGED <<domain, maxDepth, mLinks, stack, err, web,
                   fetched, failed, pureVars>>

\* main: writeXml(*outfile), its result dropped; os.Create can fail
MainWriteXml ==
    /\ pc = "returned"
    /\ err = "nil"
    /\ \E outfile \in Outfiles :
          /\ TrimSpace(outfile) # ""
          /\ \/ out' = [to |-> outfile, urls |-> Sorted(RegistryHrefs)]
             \/ out' = [to |-> outfile, error |-> "IOError"]
    /\ pc' = "done"
    /\ UNCHANGED <<domain, maxDepth, mLinks, stack, err, web,
                   fetched, failed, pureVars>>

Next ==
    \/ MainStart
    \/ FindAllSkip
    \/ FindAllAdd
    \/ FindAllFollow
    \/ FindAllFail
    \/ FindAllReturn
    \/ MainPanic
    \/ MainWriteBuf
    \/ MainWriteXml

Spec == Init /\ [][Next]_vars

(***************************************************************************)
(* Properties of the traversal (Spec).                                     *)
(***************************************************************************)
Root == fulldomain(domain)
PageA == "https://e.com/a"
PageB == "https://e.com/b"

Returned == pc \in {"returned", "done", "panic"}

\* the link graph: the filtered, normalized links of the pages served
Children(u) ==
    IF u \in DOMAIN web /\ web[u].kind = "ok"
    THEN Hrefs(mapLinks(filterLinks(web[u].links, domain), domain))
    ELSE {}

RECURSIVE ReachFrom(_)
ReachFrom(S) ==
    LET T == S \cup UNION {Children(u) : u \in S}
    IN  IF T = S THEN S ELSE ReachFrom(T)

Reachable == ReachFrom({Root})

\* C1: once a parsePage call has failed, at whatever depth, no link is
\* inserted into the registry and no page is fetched any more, and the
\* outermost findAll returns the error to main.
C1_AbortOnFirstError ==
    [][/\ failed => (mLinks' = mLinks /\ fetched' = fetched)
       /\ (failed' /\ pc' = "returned") => err' # "nil"]_vars

\* C2: in a run in which a fetch or parse failed, at whatever depth, no
\* output writer is executed.
C2_NoOutputAfterFailure == failed => out = <<>>

\* C3: with unlimited depth and no error, when the outer findAll has
\* returned the registry's keys are the root and every url reachable from
\* it over the filtered, normalized links of the pages, no more and no
\* less, every one of these pages having been asked for.
C3_RegistryIsClosure ==
    (Returned /\ maxDepth = -1 /\ ~failed) =>
        /\ DOMAIN mLinks = Reachable
        /\ DOMAIN mLinks \subseteq {fetched[i] : i \in 1..Len(fetched)}

C3_Witness ==
    /\ pc = "returned" /\ maxDepth = -1 /\ ~failed
    /\ Cardinality(DOMAIN mLinks) = 4
    /\ Children(PageA) = {PageB} /\ Children(PageB) = {PageA, "https://e.com/c"}

\* C4: with maxDepth = 0 no page is fetched and the final registry holds
\* the root only; with maxDepth = 1 only the root page is fetched and the
\* final registry holds the root and the filtered, normalized links of the
\* root page.
C4_DepthZeroAndOne ==
    /\ maxDepth = 0 =>
          /\ fetched = <<>>
          /\ Returned => DOMAIN mLinks = {Root}
    /\ maxDepth = 1 =>
          /\ \A i \in 1..Len(fetched) : fetched[i] = Root
          /\ Returned => DOMAIN mLinks = {Root} \cup Children(Root)

C4_Witness ==
    /\ pc = "returned" /\ maxDepth = 1
    /\ fetched = <<Root>>
    /\ DOMAIN mLinks = {Root, PageA, PageB}

\* the pages below the root form the cycle A -> B -> A
CycleRun ==
    /\ maxDepth = -1
    /\ Children(Root) = {PageA}
    /\ Children(PageA) = {PageB}
    /\ Children(PageB) = {PageA}

\* every key the registry can come to hold
AllKeys ==
    {Root} \cup {normalizeLink([Href |-> Anchors[k], Text |-> ""], domain).Href :
                    k \in 1..Len(Anchors)}

\* the work a call of findAll has left: its remaining links and its return
RECURSIVE FramesLeft(_)
FramesLeft(frames) ==
    IF frames = <<>> THEN 0
    ELSE Len(Head(frames).links) - Head(frames).i + 2 + FramesLeft(Tail(frames))

PcRank ==
    CASE pc = "start" -> 6
      [] pc = "findAll" -> 3
      [] pc = "returned" -> 1
      [] OTHER -> 0

\* a bound on the number of steps the run has left: each url not yet in the
\* registry can cost one call with at most MaxLinks links
Variant ==
    PcRank + FramesLeft(stack)
        + (MaxLinks + 2) * (Cardinality(AllKeys) - Cardinality(DOMAIN mLinks))

\* the run has a step to take
CanStep ==
    \/ pc = "start"
    \/ /\ pc = "findAll"
       /\ stack # <<>>
       /\ top.i \in 1..Len(top.links) + 1
       /\ (top.i <= Len(top.links) /\ ~found(link.Href) /\ follow(top.depth))
             => Responses(link.Href) # {}
    \/ pc = "returned"

\* C5: for every maxDepth and every link graph, cycles included, the outer
\* findAll returns after finitely many steps: until main ends the run has a
\* step to take, and every step lowers the non-negative Variant; on the
\* cycle A -> B -> A with unlimited depth findAll returns with the registry
\* holding the start and exactly A and B.
C5_Terminates ==
    /\ [][Variant' < Variant]_vars
    /\ [](Variant >= 0)
    /\ [](pc \in {"done", "panic"} \/ CanStep)
    /\ [](pc = "returned" /\ CycleRun => DOMAIN mLinks = {Root, PageA, PageB})

C5_Witness == pc = "returned" /\ CycleRun /\ Len(fetched) = 3

\* C6: every key of the registry, and the Href stored under it, is an
\* absolute url: http:// or https:// followed by the domain.
C6_RegistryAbsolute ==
    \A h \in DOMAIN mLinks : mLinks[h].Href = h /\ hasScheme(h, domain)

(***************************************************************************)
(* findAll as a function of the site, for a given order of sibling links.  *)
(***************************************************************************)
\* what the server answers for a url, if the run has met it
ResponseKind(u) == IF u \in DOMAIN web THEN web[u].kind ELSE "NotServed"

\* the urls of S in the order ord, a sequence of all keys
InOrder(S, ord) == SelectSeq(ord, LAMBDA h : h \in S)

\* findAll(ls, domain, depth) started with the registry keys acc.reg: the
\* keys it leaves, the error it returns, and whether some parsePage failed;
\* the links of a page are taken in the order ord
RECURSIVE findAllKeys(_, _, _, _)
findAllKeys(ls, depth, acc, ord) ==
    IF ls = <<>> THEN [reg |-> acc.reg, failed |-> acc.failed, err |-> "nil"]
    ELSE LET h == Head(ls)
             added == [acc EXCEPT !.reg = @ \cup {h}]
         IN  IF h \in acc.reg THEN findAllKeys(Tail(ls), depth, acc, ord)
             ELSE IF ~follow(depth)
                  THEN findAllKeys(Tail(ls), depth, added, ord)
             ELSE IF ResponseKind(h) # "ok"
                  THEN [reg |-> added.reg, failed |-> TRUE,
                        err |-> ResponseKind(h)]
             ELSE LET inner == findAllKeys(InOrder(Children(h), ord),
                                           depth + 1, added, ord)
                  IN  findAllKeys(Tail(ls), depth,
                                  [reg |-> inner.reg, failed |-> inner.failed],
                                  ord)

RunInOrder(ord) ==
    findAllKeys(<<Root>>, 0, [reg |-> {}, failed |-> FALSE], ord)

\* the orders in which sibling links can be taken
Orders ==
    LET K == AllKeys \ {Root}
    IN  {ord \in [1..Cardinality(K) -> K] :
            \A i, j \in 1..Cardinality(K) : i # j => ord[i] # ord[j]}

\* the order of the code: ascending by href, as purgeTwins leaves the links
CodeOrder == Sorted(AllKeys)

\* s lists the hrefs of S once each, in ascending order
AscendingListing(s, S) ==
    /\ Len(s) = Cardinality(S)
    /\ {s[i] : i \in 1..Len(s)} = S
    /\ \A i \in 1..Len(s) - 1 : Less(s[i], s[i + 1])

\* C11: for a site without errors and any maxDepth, whatever the order in
\* which findAll takes the links of a list, the final registry has the same
\* keys: every order gives the keys the run ends with.
C11_OrderIndependent ==
    (pc = "returned" /\ ~failed) =>
        \A ord \in Orders :
            ~RunInOrder(ord).failed => RunInOrder(ord).reg = DOMAIN mLinks

\* C12: the keys of the final registry, the error main receives and the
\* listing written are a function of the domain, maxDepth and the server's
\* responses: two runs with the same inputs end alike.
C12_Deterministic ==
    Returned =>
        LET r == RunInOrder(CodeOrder)
        IN  /\ DOMAIN mLinks = r.reg
            /\ err = r.err
            /\ failed = r.failed
            /\ (out # <<>> /\ "urls" \in DOMAIN out) =>
                   AscendingListing(out.urls, r.reg)
            /\ (out # <<>> /\ "count" \in DOMAIN out) =>
                   out.count = Cardinality(r.reg)

C12_Witness ==
    /\ pc = "done" /\ failed
    /\ "urls" \in DOMAIN out /\ Len(out.urls) = 4
    /\ RunInOrder(CodeOrder).reg = DOMAIN mLinks

\* C13: a writer that writes emits the hrefs of the registry once each in
\* ascending order, writeBuf with their number as the count, and leaves
\* the registry as it is.
C13_WritersListRegistry ==
    /\ []((out # <<>> /\ "urls" \in DOMAIN out) =>
             /\ AscendingListing(out.urls, DOMAIN mLinks)
             /\ out.to = "stdout" => out.count = Cardinality(DOMAIN mLinks))
    /\ [][pc = "returned" => mLinks' = mLinks]_vars

C13_Witness ==
    /\ pc = "done" /\ out.to = "stdout"
    /\ out.count = 4
    /\ out.urls[4] = "https://e.com/c"

\* C14: a url is fetched at most once, and only in the step that inserts
\* it into the registry; a step inserts at most one key and changes no
\* stored entry; a link whose href is a key is passed over without a
\* fetch and without a change of the registry.
C14_AtMostOnce ==
    /\ [](\A i, j \in 1..Len(fetched) : i # j => fetched[i] # fetched[j])
    /\ [][/\ \A h \in DOMAIN mLinks :
                h \in DOMAIN mLinks' /\ mLinks'[h] = mLinks[h]
          /\ Cardinality(DOMAIN mLinks') <= Cardinality(DOMAIN mLinks) + 1
          /\ fetched' # fetched =>
                \E h \in DOMAIN mLinks' \ DOMAIN mLinks :
                    fetched' = Append(fetched, h)
          /\ (pc = "findAll" /\ top.i <= Len(top.links)
                 /\ link.Href \in DOMAIN mLinks) =>
                (mLinks' = mLinks /\ fetched' = fetched)]_vars

\* a link with another text than the stored one has been passed over
C14_Witness ==
    /\ pc = "findAll" /\ top.i > 1
    /\ mLinks[top.links[top.i - 1].Href].Text # top.links[top.i - 1].Text

\* the urls within k links of the urls of S
RECURSIVE Within(_, _)
Within(S, k) ==
    IF k = 0 THEN S
    ELSE Within(S \cup UNION {Children(u) : u \in S}, k - 1)

\* C15: for a finite bound maxDepth = d >= 0 a call of findAll at depth d
\* or more fetches no page, no call is deeper than d, and every key of the
\* registry is within d links of the root.
C15_DepthBound ==
    /\ [](maxDepth >= 0 =>
             /\ \A k \in 1..Len(stack) :
                   stack[k].depth = k - 1 /\ stack[k].depth <= maxDepth
             /\ DOMAIN mLinks \subseteq Within({Root}, maxDepth))
    /\ [][(maxDepth >= 0 /\ fetched' # fetched) => top.depth < maxDepth]_vars

C15_Witness ==
    /\ maxDepth = 2 /\ Len(stack) = 3
    /\ Len(fetched) = 2
    /\ ~(DOMAIN mLinks \subseteq Within({Root}, 1))

\* C16: for a finite bound maxDepth = d >= 0 and no error, the final
\* registry holds every url within d links of the root.
C16_AllWithinDepth ==
    (pc = "returned" /\ maxDepth >= 0 /\ ~failed) =>
        Within({Root}, maxDepth) \subseteq DOMAIN mLinks

\* the domain flag without its scheme
Host(d) ==
    IF HasPrefix(d, "https://") THEN SubSeq(d, 9, Len(d))
    ELSE IF HasPrefix(d, "http://") THEN SubSeq(d, 8, Len(d))
    ELSE d

\* C17: the outermost call has the single root link at depth 0, its href
\* the domain flag if that has a scheme and "https://" + domain if not; the
\* links taken from the root page are those the filter and the normalizer
\* give for the host of the domain flag, with or without a scheme.
C17_RootAndHost ==
    /\ stack # <<>> =>
          /\ stack[1].depth = 0
          /\ stack[1].links =
                <<[Href |-> IF HasPrefix(domain, "https://")
                                  \/ HasPrefix(domain, "http://")
                            THEN domain ELSE "https://" \o domain,
                   Text |-> "Root link"]>>
    /\ Len(stack) >= 2 =>
          Hrefs(stack[2].links) =
              Hrefs(mapLinks(filterLinks(web[Root].links, Host(domain)),
                             Host(domain)))

\* C18: main does not end normally once writeXml has returned an error.
C18_IOErrorAborts ==
    (out # <<>> /\ "error" \in DOMAIN out) => pc # "done"

(***************************************************************************)
(* Properties of the filter and the normalizer (FilterSpec).               *)
(***************************************************************************)
\* the filter as the specification words it
KeptAsSpecified(h, d) ==
    LET t == TrimSpace(h)
    IN  /\ t # ""
        /\ \/ HasPrefix(t, "/")
           \/ HasPrefix(t, "http://" \o d \o "/")
           \/ HasPrefix(t, "https://" \o d \o "/")

Kept == resFiltered = argLinks

\* C7: the filter keeps a link if and only if its trimmed href is non-empty
\* and starts with "/" or with http://<domain>/ or https://<domain>/ (the
\* href "/" included); for example.com, of "/a", "http://example.com/a",
\* "https://example.com/a", "http://other.com/a", "mailto:x@y.com", "" and
\* "   " exactly the first three are kept.
C7_FilterAsSpecified ==
    step # "extracted" =>
        /\ Kept <=> KeptAsSpecified(argLinks[1].Href, argDomain)
        /\ (argDomain = "example.com" /\
            argLinks[1].Href \in {"/a", "http://example.com/a", "https://example.com/a",
                                  "http://other.com/a", "mailto:x@y.com", "", "   "})
           => (Kept <=> argLinks[1].Href \in
                   {"/a", "http://example.com/a", "https://example.com/a"})

Range(s) == {s[i] : i \in 1..Len(s)}

StrictlyAscending(s) ==
    \A i \in 1..Len(s) - 1 : Less(s[i].Href, s[i + 1].Href)

\* C9: purgeTwins returns a sequence strictly ascending by href whose set
\* of hrefs is that of the input, and each of its links is an input link.
C9_PurgeSortedUnique ==
    step \in {"purged", "purgedTwice"} =>
        /\ StrictlyAscending(resUniq)
        /\ Hrefs(resUniq) = Hrefs(argLinks)
        /\ Range(resUniq) \subseteq Range(argLinks)

C9_Witness ==
    /\ step = "purged"
    /\ Len(argLinks) = 3 /\ Len(resUniq) = 2
    /\ Less(argLinks[3].Href, argLinks[1].Href)
    /\ argLinks[1].Href = argLinks[2].Href /\ argLinks[1].Text # argLinks[2].Text

\* C10: purgeTwins applied to a result of purgeTwins returns that result,
\* element for element.
C10_PurgeIdempotent == step = "purgedTwice" => resTwice = resUniq

C10_Witness ==
    /\ step = "purgedTwice"
    /\ Len(argLinks) = 3 /\ Len(resUniq) = 2
    /\ argLinks # resUniq \o <<argLinks[3]>>
    /\ resTwice = resUniq

====
